---- MODULE Spec2Model ----
(***************************************************************************)
(* The argument graph of src/graph_node.py and src/argument_graph.py:      *)
(* GraphNode construction from raw constructor arguments, the label index, *)
(* the three reference-resolution passes, the constraint check and the     *)
(* queries of a built graph.                                               *)
(*                                                                         *)
(* Strings are sequences of one-character strings, so that str.strip() is  *)
(* computed and not assumed.  A node is the position of its instance in    *)
(* the construction order; several instances may carry the same label.     *)
(* A Python set of GraphNode is a set of instances no two of which carry   *)
(* the same label, because GraphNode.__eq__ and __hash__ look at the label *)
(* only (two different labels with the same hash are not modelled).        *)
(***************************************************************************)
EXTENDS Integers, Sequences, FiniteSets, TLC

\* Bounds of the model.
MaxNodes == 3
MaxDecls == 3
MaxBlanks == 1

VARIABLES
    pc,                  \* position in the construction pipeline
    args,                \* raw constructor arguments, one record per GraphNode(...)
    nodes,               \* the GraphNode instances, by instance number
    introduction_nodes,  \* the six partitions of ArgumentGraph: lists of instances
    transition_nodes,
    z_arguments_nodes,
    group_nodes,
    nz_arguments_nodes,
    faq_nodes,
    label_to_node,       \* ArgumentGraph._label_to_node
    stdout,              \* what print() has written: the WARNING lines
    ret,                 \* what the last query returned (or raised)
    passes               \* the loop variables of the resolution passes that are running

vars == <<pc, args, nodes, introduction_nodes, transition_nodes, z_arguments_nodes,
          group_nodes, nz_arguments_nodes, faq_nodes, label_to_node, stdout, ret,
          passes>>

partitions == <<introduction_nodes, transition_nodes, z_arguments_nodes,
                group_nodes, nz_arguments_nodes, faq_nodes>>

-----------------------------------------------------------------------------
\* Strings and labels

LabelSeq == << <<"A">>, <<"B">>, <<"C">> >>

Labels == {LabelSeq[k] : k \in DOMAIN LabelSeq}

Pad(s) == <<" ">> \o s \o <<" ">>

\* Raw strings a caller may pass: the labels, and one label with blanks around it.
RawLabels == Labels \cup {Pad(LabelSeq[1])}

RECURSIVE lstrip(_)
lstrip(s) == IF s # <<>> /\ Head(s) = " " THEN lstrip(Tail(s)) ELSE s

RECURSIVE rstrip(_)
rstrip(s) == IF s # <<>> /\ s[Len(s)] = " " THEN rstrip(SubSeq(s, 1, Len(s) - 1)) ELSE s

\* str.strip()
strip(s) == rstrip(lstrip(s))

-----------------------------------------------------------------------------
\* Python values returned by the queries

None == [tag |-> "None"]

NodeRef(i) == [tag |-> "GraphNode", id |-> i]

SetRef(S) == [tag |-> "set", elems |-> S]

RecursionError == [tag |-> "raise", exc |-> "RecursionError"]

NoCall == [op |-> "none"]

-----------------------------------------------------------------------------
\* Enumerations of graph_node.py and stance.py

GraphNodeCategory == {"Z", "NZ", "FAQ", "OTHER"}

Stance == {"PRO", "CON", "OTHER"}

-----------------------------------------------------------------------------
\* GraphNode (graph_node.py)

\* The dataclass fields of a new instance: the arguments, and five empty link sets.
GraphNodeFields(a) ==
    [label |-> a.label, parents |-> a.parents, groups |-> a.groups,
     similars |-> a.similars, category |-> a.category, stance |-> a.stance,
     child_nodes |-> {}, parent_nodes |-> {}, similar_nodes |-> {},
     group_nodes |-> {}, group_member_nodes |-> {}]

\* GraphNode._cleanup_attributes: label, parents and groups are stripped; similars are not.
cleanup_attributes(n) ==
    [n EXCEPT !.label = strip(n.label),
              !.parents = {strip(parent) : parent \in n.parents},
              !.groups = {strip(group) : group \in n.groups}]

\* Faulty variant of _match_constraints: the second test discards from groups
\* again, and the node's own label stays in parents.
match_constraints_parents_kept(n) ==
    [n EXCEPT !.groups = IF n.label \in n.groups THEN n.groups \ {n.label} ELSE n.groups]

\* GraphNode._match_constraints: the node's own label leaves groups and parents.
match_constraints(n) ==
    [n EXCEPT !.groups = IF n.label \in n.groups THEN n.groups \ {n.label} ELSE n.groups,
              !.parents = IF n.label \in n.parents THEN n.parents \ {n.label} ELSE n.parents]

\* The WARNING lines _match_constraints prints for a cleaned-up node, in order.
match_constraints_prints(n) ==
    (IF n.label \in n.groups THEN <<[warning |-> "group", label |-> n.label]>> ELSE <<>>)
    \o (IF n.label \in n.parents THEN <<[warning |-> "parent", label |-> n.label]>> ELSE <<>>)

\* GraphNode.__post_init__ on the fields of a new instance.
post_init(a) == match_constraints(cleanup_attributes(GraphNodeFields(a)))

\* x in S, for a Python set S of GraphNode: __eq__ compares the labels' hashes.
set_contains(ns, S, x) == \E y \in S : ns[y].label = ns[x].label

\* S.add(x): an element equal to x stays, x is not stored a second time.
set_add(ns, S, x) == IF set_contains(ns, S, x) THEN S ELSE S \cup {x}

\* S.update(T), for T whose elements carry pairwise different labels.
set_update(ns, S, T) == S \cup {x \in T : ~set_contains(ns, S, x)}

-----------------------------------------------------------------------------
\* ArgumentGraph construction (argument_graph.py)

\* ArgumentGraph.all_nodes: the six partitions, concatenated.
all_nodes ==
    introduction_nodes \o transition_nodes \o z_arguments_nodes
    \o group_nodes \o nz_arguments_nodes \o faq_nodes

\* Faulty variant of the label index: built from arguments_nodes, the z- and
\* nz-arguments, and not from all_nodes.
build_label_to_node_of_arguments(ns, all) ==
    LET arguments == z_arguments_nodes \o nz_arguments_nodes IN
    [l \in {ns[arguments[k]].label : k \in DOMAIN arguments} |->
        arguments[CHOOSE k \in DOMAIN arguments :
                /\ ns[arguments[k]].label = l
                /\ \A j \in DOMAIN arguments : ns[arguments[j]].label = l => j <= k]]

\* {node.label: node for node in all_nodes}: a later node replaces an earlier one.
build_label_to_node(ns, all) ==
    [l \in {ns[all[k]].label : k \in DOMAIN all} |->
        all[CHOOSE k \in DOMAIN all :
                /\ ns[all[k]].label = l
                /\ \A j \in DOMAIN all : ns[all[j]].label = l => j <= k]]

\* ArgumentGraph.get_node_for_label on an index idx: dict.get(label, None).
lookup(idx, label) == IF label \in DOMAIN idx THEN NodeRef(idx[label]) ELSE None

\* Faulty variant of the resolution of a set of labels: one unknown label and
\* none of the labels is resolved.
resolved_all_or_none(idx, labels) ==
    IF \A l \in labels : lookup(idx, l) # None
    THEN {lookup(idx, l).id : l \in labels}
    ELSE {}

\* The nodes found for a set of labels, None filtered out.
resolved(idx, labels) == {lookup(idx, l).id : l \in {k \in labels : lookup(idx, k) # None}}

\* The loop the three passes share: for every node of todo that declares labels
\* in raw, update its fwd set with the nodes found and add it to the back set of
\* each of them.
RECURSIVE init_references(_, _, _, _, _, _)
init_references(ns, idx, todo, raw, fwd, back) ==
    IF todo = <<>> THEN ns
    ELSE LET node == Head(todo)
             found == resolved(idx, ns[node][raw])
             ns1 == [ns EXCEPT ![node][fwd] = set_update(ns, @, found)]
             ns2 == [p \in DOMAIN ns1 |->
                        IF p \in found
                        THEN [ns1[p] EXCEPT ![back] = set_add(ns1, @, node)]
                        ELSE ns1[p]]
         IN  init_references(IF ns[node][raw] = {} THEN ns ELSE ns2,
                             idx, Tail(todo), raw, fwd, back)

\* ArgumentGraph._init_node_child_and_parent_references
init_node_child_and_parent_references(ns, idx, all) ==
    init_references(ns, idx, all, "parents", "parent_nodes", "child_nodes")

\* ArgumentGraph._init_node_group_references
init_node_group_references(ns, idx, all) ==
    init_references(ns, idx, all, "groups", "group_nodes", "group_member_nodes")

\* ArgumentGraph._init_node_similars_references
init_node_similars_references(ns, idx, all) ==
    init_references(ns, idx, all, "similars", "similar_nodes", "similar_nodes")

\* Faulty variant of _check_constraints: membership is tested by the identity of
\* the instance and not by GraphNode.__eq__.
check_constraints_by_identity(ns, all) ==
    \A k \in DOMAIN all :
        LET node == all[k] IN
        /\ \A parent_node \in ns[node].parent_nodes : node \in ns[parent_node].child_nodes
        /\ \A child_node \in ns[node].child_nodes : node \in ns[child_node].parent_nodes
        /\ \A group_node \in ns[node].group_nodes : node \in ns[group_node].group_member_nodes
        /\ \A group_member_node \in ns[node].group_member_nodes :
                node \in ns[group_member_node].group_nodes
        /\ \A similar_node \in ns[node].similar_nodes : node \in ns[similar_node].similar_nodes

\* ArgumentGraph._check_constraints: TRUE when none of the five assertions fails.
check_constraints(ns, all) ==
    \A k \in DOMAIN all :
        LET node == all[k] IN
        /\ \A parent_node \in ns[node].parent_nodes :
                set_contains(ns, ns[parent_node].child_nodes, node)
        /\ \A child_node \in ns[node].child_nodes :
                set_contains(ns, ns[child_node].parent_nodes, node)
        /\ \A group_node \in ns[node].group_nodes :
                set_contains(ns, ns[group_node].group_member_nodes, node)
        /\ \A group_member_node \in ns[node].group_member_nodes :
                set_contains(ns, ns[group_member_node].group_nodes, node)
        /\ \A similar_node \in ns[node].similar_nodes :
                set_contains(ns, ns[similar_node].similar_nodes, node)

-----------------------------------------------------------------------------
\* The transitive accessors of GraphNode (graph_node.py)

\* CPython ends a recursion that never returns with RecursionError at its
\* recursion limit.  A chain of calls longer than the number of instances has an
\* instance twice and so never returns: the limit is modelled by that number.
RecursionLimit == MaxNodes

\* The body the four accessors share, for the link set named field.  A Python
\* set is iterated in an order the code does not control, so the body is given
\* by the set of everything it can return:
\*   transitive_loop: the for loop, todo the elements still to come in some order,
\*     acc the result set so far;
\*   transitive_nodes: the property read on node, at call depth depth.
RECURSIVE transitive_loop(_, _, _, _, _)
RECURSIVE transitive_nodes(_, _, _, _)
transitive_loop(ns, field, todo, acc, depth) ==
    IF todo = {} THEN {SetRef(acc)}
    ELSE UNION {
        IF set_contains(ns, acc, next)
        THEN transitive_loop(ns, field, todo \ {next}, acc, depth)
        ELSE UNION {
            IF sub.tag = "raise" THEN {sub}
            ELSE transitive_loop(ns, field, todo \ {next},
                                 set_update(ns, set_add(ns, acc, next), sub.elems), depth)
            : sub \in transitive_nodes(ns, field, next, depth + 1)}
        : next \in todo}

transitive_nodes(ns, field, node, depth) ==
    IF depth > RecursionLimit THEN {RecursionError}
    ELSE transitive_loop(ns, field, ns[node][field], {}, depth)

\* GraphNode.super_group_nodes
super_group_nodes(ns, node) == transitive_nodes(ns, "group_nodes", node, 1)

\* GraphNode.sub_group_member_nodes
sub_group_member_nodes(ns, node) == transitive_nodes(ns, "group_member_nodes", node, 1)

\* GraphNode.ancestor_nodes
ancestor_nodes(ns, node) == transitive_nodes(ns, "parent_nodes", node, 1)

\* GraphNode.descendant_nodes
descendant_nodes(ns, node) == transitive_nodes(ns, "child_nodes", node, 1)

-----------------------------------------------------------------------------
\* Queries of ArgumentGraph (argument_graph.py)

\* ArgumentGraph.get_node_for_label
get_node_for_label(label) == lookup(label_to_node, label)

\* Faulty variant of get_counter_args: the test for an empty child set is
\* missing, and a node without children gives the empty set.
get_counter_args_without_length_test(label) ==
    LET node == lookup(label_to_node, label) IN
    IF node = None THEN None ELSE SetRef(nodes[node.id].child_nodes)

\* Faulty variant of get_counter_args: an unknown label gives the empty set.
get_counter_args_unknown_is_empty(label) ==
    LET node == lookup(label_to_node, label) IN
    IF node = None THEN SetRef({})
    ELSE IF Cardinality(nodes[node.id].child_nodes) > 0
         THEN SetRef(nodes[node.id].child_nodes)
         ELSE None

\* ArgumentGraph.get_counter_args
get_counter_args(label) ==
    LET node == get_node_for_label(label) IN
    IF node = None THEN None
    ELSE IF Cardinality(nodes[node.id].child_nodes) > 0
         THEN SetRef(nodes[node.id].child_nodes)
         ELSE None

\* A Python list, tuple items as sequences, and an int a query returns.
ListRef(q) == [tag |-> "list", elems |-> q]

IntRef(k) == [tag |-> "int", value |-> k]

\* GraphNode.has_parent_labels
has_parent_labels(ns, node) == Cardinality(ns[node].parents) > 0

\* ArgumentGraph.faq_question_nodes
faq_question_nodes ==
    SelectSeq(faq_nodes, LAMBDA node : ~has_parent_labels(nodes, node))

\* Faulty variant of faq_answer_nodes: the nodes of all partitions that declare
\* parents, and not those of the FAQ partition only.
answer_nodes_of_all_partitions ==
    SelectSeq(all_nodes, LAMBDA node : has_parent_labels(nodes, node))

\* ArgumentGraph.faq_answer_nodes
faq_answer_nodes ==
    SelectSeq(faq_nodes, LAMBDA node : has_parent_labels(nodes, node))

\* The loop of faq_node_pairs over the answers still to come.  An answer
\* without parent nodes is skipped; next(iter(answer_node.parent_nodes)) takes
\* the element the set happens to iterate first, which the code does not
\* control: the loop is given by the set of all lists it can build.
RECURSIVE faq_node_pairs_loop(_, _)
faq_node_pairs_loop(todo, q_a_tuples) ==
    IF todo = <<>> THEN {ListRef(q_a_tuples)}
    ELSE LET answer_node == Head(todo) IN
         IF Cardinality(nodes[answer_node].parent_nodes) < 1
         THEN faq_node_pairs_loop(Tail(todo), q_a_tuples)
         ELSE UNION {
                faq_node_pairs_loop(Tail(todo),
                                    Append(q_a_tuples, <<question_node, answer_node>>))
                : question_node \in nodes[answer_node].parent_nodes}

\* ArgumentGraph.faq_node_pairs: the lists of (question_node, answer_node) it can return.
faq_node_pairs == faq_node_pairs_loop(faq_answer_nodes, <<>>)

\* The WARNING lines faq_node_pairs prints, in order.
RECURSIVE faq_node_pairs_prints(_)
faq_node_pairs_prints(todo) ==
    IF todo = <<>> THEN <<>>
    ELSE LET answer_node == Head(todo)
             parents == Cardinality(nodes[answer_node].parent_nodes)
         IN  (IF parents < 1
              THEN <<[warning |-> "FAQ answer node without question",
                      label |-> nodes[answer_node].label]>>
              ELSE IF parents > 1
                   THEN <<[warning |-> "FAQ answer node for multiple questions",
                           label |-> nodes[answer_node].label]>>
                   ELSE <<>>)
             \o faq_node_pairs_prints(Tail(todo))

\* ArgumentGraph.z_nodes
z_nodes == SelectSeq(all_nodes, LAMBDA node : nodes[node].category = "Z")

\* set(q) for a list q of GraphNode: of several nodes with one label the first stays.
RECURSIVE set_of_list(_, _, _)
set_of_list(ns, q, acc) ==
    IF q = <<>> THEN acc ELSE set_of_list(ns, Tail(q), set_add(ns, acc, Head(q)))

\* ArgumentGraph.first_level_z_nodes
first_level_z_nodes ==
    set_of_list(nodes, SelectSeq(z_nodes, LAMBDA node : ~has_parent_labels(nodes, node)), {})

\* ArgumentGraph.get_num_arguments_pro
get_num_arguments_pro ==
    Cardinality({node \in first_level_z_nodes : nodes[node].stance = "PRO"})

\* ArgumentGraph.get_num_arguments_con
get_num_arguments_con ==
    Cardinality({node \in first_level_z_nodes : nodes[node].stance = "CON"})

-----------------------------------------------------------------------------
\* Inputs

\* A declaration: node i names raw label l in its parents, groups or similars.
\* The declarations of n rows are numbered 1..NumDecls(n).
FamilySeq == <<"parents", "groups", "similars">>

RawLabelSeq == LabelSeq \o <<Pad(LabelSeq[1])>>

NumDecls(n) == n * Len(FamilySeq) * Len(RawLabelSeq)

DeclAt(x) ==
    [node |-> ((x - 1) \div (Len(FamilySeq) * Len(RawLabelSeq))) + 1,
     family |-> FamilySeq[(((x - 1) \div Len(RawLabelSeq)) % Len(FamilySeq)) + 1],
     label |-> RawLabelSeq[((x - 1) % Len(RawLabelSeq)) + 1]]

\* The sets of at most k of the numbers 1..m, as increasing sequences.
RECURSIVE Increasing(_, _)
Increasing(m, k) ==
    IF k = 0 THEN {<<>>}
    ELSE LET shorter == Increasing(m, k - 1) IN
         shorter \cup
         {Append(p[1], p[2]) :
            p \in {<<q, x>> \in shorter \X (1..m) :
                      /\ Len(q) = k - 1
                      /\ q = <<>> \/ q[Len(q)] < x}}

Declared(D, i, f) == {d.label : d \in {e \in D : e.node = i /\ e.family = f}}

\* The rows 1..n put into the six partitions; a row's partition never precedes
\* that of an earlier row, so that all_nodes lists the rows in order.
Layouts(n) == {lay \in [1..n -> 1..6] : \A i, j \in 1..n : i < j => lay[i] <= lay[j]}

ZArguments(n) == [i \in 1..n |-> 3]

Partition(lay, k) == SelectSeq([i \in DOMAIN lay |-> i], LAMBDA i : lay[i] = k)

\* Labels are opaque to the code, which only compares them: the rows are given
\* labels in the order of LabelSeq, a row carrying a label already in use or the
\* next unused one.
Rank(l) == CHOOSE k \in DOMAIN LabelSeq : LabelSeq[k] = l

InOrderOfFirstUse(lab) ==
    \A i \in DOMAIN lab :
        \/ Rank(strip(lab[i])) = 1
        \/ \E j \in 1..(i - 1) : Rank(strip(lab[i])) <= Rank(strip(lab[j])) + 1

-----------------------------------------------------------------------------
\* The state machine

\* The number of raw strings of an input that have blanks around them.
Blanks(lab, D) ==
    Cardinality({i \in DOMAIN lab : lab[i] \notin Labels})
    + Cardinality({d \in D : d.label \notin Labels})

\* Up to MaxNodes rows, up to MaxDecls declared references and up to MaxBlanks
\* strings with blanks, the rows all z-arguments; or rows that lie in any
\* partitions and declare nothing.
Init ==
    \E n \in 1..MaxNodes :
    \E lab \in {l \in [1..n -> RawLabels] : InOrderOfFirstUse(l)} :
    \E q \in Increasing(NumDecls(n), MaxDecls) :
    LET D == {DeclAt(q[k]) : k \in DOMAIN q} IN
    \E lay \in IF D = {} THEN Layouts(n) ELSE {ZArguments(n)} :
        /\ Blanks(lab, D) <= MaxBlanks
        /\ pc = "args"
        /\ args = [i \in 1..n |->
                      [label |-> lab[i],
                       parents |-> Declared(D, i, "parents"),
                       groups |-> Declared(D, i, "groups"),
                       similars |-> Declared(D, i, "similars"),
                       category |-> "OTHER", stance |-> "OTHER"]]
        /\ nodes = <<>>
        /\ introduction_nodes = Partition(lay, 1)
        /\ transition_nodes = Partition(lay, 2)
        /\ z_arguments_nodes = Partition(lay, 3)
        /\ group_nodes = Partition(lay, 4)
        /\ nz_arguments_nodes = Partition(lay, 5)
        /\ faq_nodes = Partition(lay, 6)
        /\ label_to_node = <<>>
        /\ stdout = <<>>
        /\ ret = NoCall
        /\ passes = <<>>

RECURSIVE Flatten(_)
Flatten(ss) == IF ss = <<>> THEN <<>> ELSE Head(ss) \o Flatten(Tail(ss))

\* GraphNode(**args) for every row: __post_init__ cleans up, warns and discards.
NewGraphNodes ==
    /\ pc = "args"
    /\ nodes' = [i \in DOMAIN args |-> post_init(args[i])]
    /\ stdout' = stdout \o Flatten([i \in DOMAIN args |->
                    match_constraints_prints(cleanup_attributes(GraphNodeFields(args[i])))])
    /\ args' = <<>>
    /\ pc' = "nodes"
    /\ UNCHANGED <<partitions, label_to_node, ret, passes>>

\* ArgumentGraph._init_node_references: the three passes, in the order of the code.
init_node_references(ns, idx, all) ==
    init_node_similars_references(
        init_node_group_references(
            init_node_child_and_parent_references(ns, idx, all), idx, all), idx, all)

\* ArgumentGraph(...): __post_init__ builds the label index, resolves the
\* references and checks the constraints; construction completes, or an
\* assertion fails and no graph exists.
PostInit ==
    /\ pc = "nodes"
    /\ label_to_node' = build_label_to_node(nodes, all_nodes)
    /\ nodes' = init_node_references(nodes, label_to_node', all_nodes)
    /\ pc' = IF check_constraints(nodes', all_nodes) THEN "built" ELSE "AssertionError"
    /\ UNCHANGED <<args, partitions, stdout, ret, passes>>

\* A query of the built graph returns to its caller, which holds the result
\* until it drops it and goes on.
Return(op, arg, val) ==
    /\ ret = NoCall
    /\ ret' = [op |-> op, arg |-> arg, val |-> val]
    /\ UNCHANGED <<pc, args, nodes, partitions, label_to_node, stdout, passes>>

GetNodeForLabel ==
    /\ pc = "built"
    /\ \E label \in RawLabels : Return("get_node_for_label", label, get_node_for_label(label))

GetCounterArgs ==
    /\ pc = "built"
    /\ \E label \in RawLabels : Return("get_counter_args", label, get_counter_args(label))

AncestorNodes ==
    /\ pc = "built"
    /\ \E node \in DOMAIN nodes : \E val \in ancestor_nodes(nodes, node) :
            Return("ancestor_nodes", node, val)

DescendantNodes ==
    /\ pc = "built"
    /\ \E node \in DOMAIN nodes : \E val \in descendant_nodes(nodes, node) :
            Return("descendant_nodes", node, val)

SuperGroupNodes ==
    /\ pc = "built"
    /\ \E node \in DOMAIN nodes : \E val \in super_group_nodes(nodes, node) :
            Return("super_group_nodes", node, val)

SubGroupMemberNodes ==
    /\ pc = "built"
    /\ \E node \in DOMAIN nodes : \E val \in sub_group_member_nodes(nodes, node) :
            Return("sub_group_member_nodes", node, val)

DropResult ==
    /\ ret # NoCall
    /\ ret' = NoCall
    /\ UNCHANGED <<pc, args, nodes, partitions, label_to_node, stdout, passes>>

Next ==
    \/ NewGraphNodes
    \/ PostInit
    \/ GetNodeForLabel
    \/ GetCounterArgs
    \/ AncestorNodes
    \/ DescendantNodes
    \/ SuperGroupNodes
    \/ SubGroupMemberNodes
    \/ DropResult

Spec == Init /\ [][Next]_vars

-----------------------------------------------------------------------------
\* The queries over the partitions, the categories and the stances

\* Bounds of the inputs and of the output of these queries.
MaxStanceDecls == 1
MaxLines == 4

\* A parents declaration: node i names label l in its parents.  The
\* declarations of n rows are numbered 1..n * Len(LabelSeq).
ParentDeclAt(x) ==
    [node |-> ((x - 1) \div Len(LabelSeq)) + 1,
     family |-> "parents",
     label |-> LabelSeq[((x - 1) % Len(LabelSeq)) + 1]]

\* Rows in the z-arguments and the FAQ partition.
FaqLayouts(n) == {lay \in Layouts(n) : \A i \in 1..n : lay[i] \in {3, 6}}

\* The rows in the transition, the group and the FAQ partition, one in each.
Spread(n) == [i \in 1..n |-> 2 * i]

\* The arguments of ArgumentGraph(...) and of the GraphNode(...) calls before it.
QueryInput(n, lab, D, lay, category, stance) ==
    /\ pc = "args"
    /\ args = [i \in 1..n |->
                  [label |-> lab[i],
                   parents |-> Declared(D, i, "parents"),
                   groups |-> {},
                   similars |-> {},
                   category |-> category[i], stance |-> stance[i]]]
    /\ nodes = <<>>
    /\ introduction_nodes = Partition(lay, 1)
    /\ transition_nodes = Partition(lay, 2)
    /\ z_arguments_nodes = Partition(lay, 3)
    /\ group_nodes = Partition(lay, 4)
    /\ nz_arguments_nodes = Partition(lay, 5)
    /\ faq_nodes = Partition(lay, 6)
    /\ label_to_node = <<>>
    /\ stdout = <<>>
    /\ ret = NoCall
    /\ passes = <<>>

\* Up to MaxNodes rows of z-arguments and FAQ nodes with up to MaxDecls declared
\* parents, the category that of the partition; or rows of the transition,
\* group and FAQ partitions, of category Z or NZ and any stance, with up to
\* MaxStanceDecls declared parents.
QueryInit ==
    \E n \in 1..MaxNodes :
    \E lab \in {l \in [1..n -> Labels] : InOrderOfFirstUse(l)} :
        \/ \E q \in Increasing(n * Len(LabelSeq), MaxDecls) :
           \E lay \in FaqLayouts(n) :
                QueryInput(n, lab, {ParentDeclAt(q[k]) : k \in DOMAIN q}, lay,
                           [i \in 1..n |-> IF lay[i] = 6 THEN "FAQ" ELSE "Z"],
                           [i \in 1..n |-> "OTHER"])
        \/ \E q \in Increasing(n * Len(LabelSeq), MaxStanceDecls) :
           \E lay \in {Spread(n)} :
           \E category \in [1..n -> {"Z", "NZ"}] :
           \E stance \in [1..n -> Stance] :
                QueryInput(n, lab, {ParentDeclAt(q[k]) : k \in DOMAIN q}, lay,
                           category, stance)

\* Faulty variant of faq_node_pairs: the question is taken out of the answer's
\* parent_nodes (set.pop()) and not read from it.
FaqNodePairsPopsQuestion ==
    /\ pc = "built"
    /\ ret = NoCall
    /\ Len(stdout) + Len(faq_node_pairs_prints(faq_answer_nodes)) <= MaxLines
    /\ \E val \in faq_node_pairs :
            /\ ret' = [op |-> "faq_node_pairs", arg |-> None, val |-> val]
            /\ nodes' = [i \in DOMAIN nodes |->
                            [nodes[i] EXCEPT !.parent_nodes =
                                @ \ {val.elems[k][1] : k \in {j \in DOMAIN val.elems :
                                                                val.elems[j][2] = i}}]]
    /\ stdout' = stdout \o faq_node_pairs_prints(faq_answer_nodes)
    /\ UNCHANGED <<pc, args, partitions, label_to_node, passes>>

\* faq_node_pairs returns one of the lists it can build, its warnings printed.
FaqNodePairs ==
    /\ pc = "built"
    /\ ret = NoCall
    /\ Len(stdout) + Len(faq_node_pairs_prints(faq_answer_nodes)) <= MaxLines
    /\ \E val \in faq_node_pairs :
            ret' = [op |-> "faq_node_pairs", arg |-> None, val |-> val]
    /\ stdout' = stdout \o faq_node_pairs_prints(faq_answer_nodes)
    /\ UNCHANGED <<pc, args, nodes, partitions, label_to_node, passes>>

FaqQuestionNodes ==
    /\ pc = "built"
    /\ Return("faq_question_nodes", None, ListRef(faq_question_nodes))

FaqAnswerNodes ==
    /\ pc = "built"
    /\ Return("faq_answer_nodes", None, ListRef(faq_answer_nodes))

ZNodes ==
    /\ pc = "built"
    /\ Return("z_nodes", None, ListRef(z_nodes))

FirstLevelZNodes ==
    /\ pc = "built"
    /\ Return("first_level_z_nodes", None, SetRef(first_level_z_nodes))

GetNumArgumentsPro ==
    /\ pc = "built"
    /\ Return("get_num_arguments_pro", None, IntRef(get_num_arguments_pro))

GetNumArgumentsCon ==
    /\ pc = "built"
    /\ Return("get_num_arguments_con", None, IntRef(get_num_arguments_con))

QueryNext ==
    \/ Next
    \/ FaqNodePairs
    \/ FaqQuestionNodes
    \/ FaqAnswerNodes
    \/ ZNodes
    \/ FirstLevelZNodes
    \/ GetNumArgumentsPro
    \/ GetNumArgumentsCon

QuerySpec == QueryInit /\ [][QueryNext]_vars

-----------------------------------------------------------------------------
\* The three resolution passes, run side by side

\* The statements of a pass are those of its code and keep their order; which
\* pass takes the next step is not fixed.  passes[raw] holds the loop variables
\* of the pass over the raw field raw: k, the position of its for loop in
\* all_nodes, and pending, the nodes found for all_nodes[k] to which the back
\* link is still to be added.

\* Up to MaxNodes z-arguments with up to MaxDecls declared references, no blanks.
PassInit ==
    \E n \in 1..MaxNodes :
    \E lab \in {l \in [1..n -> Labels] : InOrderOfFirstUse(l)} :
    \E q \in Increasing(NumDecls(n), MaxDecls) :
    LET D == {DeclAt(q[k]) : k \in DOMAIN q} IN
        /\ Blanks(lab, D) = 0
        /\ pc = "args"
        /\ args = [i \in 1..n |->
                      [label |-> lab[i],
                       parents |-> Declared(D, i, "parents"),
                       groups |-> Declared(D, i, "groups"),
                       similars |-> Declared(D, i, "similars"),
                       category |-> "OTHER", stance |-> "OTHER"]]
        /\ nodes = <<>>
        /\ introduction_nodes = <<>>
        /\ transition_nodes = <<>>
        /\ z_arguments_nodes = [i \in 1..n |-> i]
        /\ group_nodes = <<>>
        /\ nz_arguments_nodes = <<>>
        /\ faq_nodes = <<>>
        /\ label_to_node = <<>>
        /\ stdout = <<>>
        /\ ret = NoCall
        /\ passes = <<>>

\* ArgumentGraph.__post_init__, first statement: the label index; the passes start.
BuildIndex ==
    /\ pc = "nodes"
    /\ label_to_node' = build_label_to_node(nodes, all_nodes)
    /\ passes' = [raw \in {"parents", "groups", "similars"} |-> [k |-> 1, pending |-> {}]]
    /\ pc' = "passes"
    /\ UNCHANGED <<args, nodes, partitions, stdout, ret>>

\* The position in all_nodes, from k on, of the next node that declares labels
\* in raw (the loop skips the others), or Len(all_nodes) + 1.
NextDeclaring(raw, k) ==
    IF \E j \in k..Len(all_nodes) : nodes[all_nodes[j]][raw] # {}
    THEN CHOOSE j \in k..Len(all_nodes) :
            /\ nodes[all_nodes[j]][raw] # {}
            /\ \A i \in k..(j - 1) : nodes[all_nodes[i]][raw] = {}
    ELSE Len(all_nodes) + 1

PassReturned(raw) ==
    /\ passes[raw].pending = {}
    /\ NextDeclaring(raw, passes[raw].k) > Len(all_nodes)

\* One link insertion of the pass over raw: node.<fwd>.update(found) for the
\* next node that declares labels, or <found node>.<back>.add(node) for one of
\* the nodes found.
PassStep(raw, fwd, back) ==
    /\ pc = "passes"
    /\ ~PassReturned(raw)
    /\ IF passes[raw].pending = {}
       THEN LET j == NextDeclaring(raw, passes[raw].k)
                node == all_nodes[j]
                found == resolved(label_to_node, nodes[node][raw])
            IN  /\ nodes' = [nodes EXCEPT ![node][fwd] = set_update(nodes, @, found)]
                /\ passes' = [passes EXCEPT ![raw] =
                                IF found = {} THEN [k |-> j + 1, pending |-> {}]
                                ELSE [k |-> j, pending |-> found]]
       ELSE \E found_node \in passes[raw].pending :
                /\ nodes' = [nodes EXCEPT ![found_node][back] =
                                set_add(nodes, @, all_nodes[passes[raw].k])]
                /\ passes' = [passes EXCEPT ![raw] =
                                IF passes[raw].pending = {found_node}
                                THEN [k |-> passes[raw].k + 1, pending |-> {}]
                                ELSE [k |-> passes[raw].k,
                                      pending |-> passes[raw].pending \ {found_node}]]
    /\ UNCHANGED <<pc, args, partitions, label_to_node, stdout, ret>>

ParentPassStep == PassStep("parents", "parent_nodes", "child_nodes")

\* Faulty variant of the group pass: it inserts into parent_nodes and child_nodes.
GroupPassStepIntoParentNodes == PassStep("groups", "parent_nodes", "child_nodes")

GroupPassStep == PassStep("groups", "group_nodes", "group_member_nodes")

SimilarPassStep == PassStep("similars", "similar_nodes", "similar_nodes")

\* ArgumentGraph.__post_init__, last statement, once the three passes have returned.
CheckConstraints ==
    /\ pc = "passes"
    /\ \A raw \in DOMAIN passes : PassReturned(raw)
    /\ pc' = IF check_constraints(nodes, all_nodes) THEN "built" ELSE "AssertionError"
    /\ passes' = <<>>
    /\ UNCHANGED <<args, nodes, partitions, label_to_node, stdout, ret>>

PassNext ==
    \/ NewGraphNodes
    \/ BuildIndex
    \/ ParentPassStep
    \/ GroupPassStep
    \/ SimilarPassStep
    \/ CheckConstraints

PassSpec == PassInit /\ [][PassNext]_vars

-----------------------------------------------------------------------------
\* Properties

Built == pc = "built"

Ids == DOMAIN nodes

\* x in S as Python evaluates it: by label.
In(S, x) == set_contains(nodes, S, x)

\* No two instances carry the same label.
LabelsUnique == \A i, j \in Ids : nodes[i].label = nodes[j].label => i = j

\* The instances reached from node by one or more steps along the link set field.
RECURSIVE ReachFrom(_, _)
ReachFrom(field, S) ==
    LET more == S \cup UNION {nodes[x][field] : x \in S} IN
    IF more = S THEN S ELSE ReachFrom(field, more)

Reach(field, node) == ReachFrom(field, nodes[node][field])

OnCycle(field, node) == node \in Reach(field, node)

Accessors == {"ancestor_nodes", "descendant_nodes", "super_group_nodes", "sub_group_member_nodes"}

\* C1: in every built graph, for all nodes N and P, P is in N.parent_nodes iff N
\* is in P.child_nodes, and P is in N.group_nodes iff N is in
\* P.group_member_nodes, membership compared by label.
C1_ParentChildGroupSymmetry ==
    Built =>
        \A N \in Ids, P \in Ids :
            /\ In(nodes[N].parent_nodes, P) <=> In(nodes[P].child_nodes, N)
            /\ In(nodes[N].group_nodes, P) <=> In(nodes[P].group_member_nodes, N)

\* C2: in every built graph, for all nodes A and B, A is in B.similar_nodes iff
\* B is in A.similar_nodes, whichever side declared the other in similars.
C2_SimilarSymmetry ==
    Built =>
        \A a \in Ids, b \in Ids :
            In(nodes[b].similar_nodes, a) <=> In(nodes[a].similar_nodes, b)

\* C3: on every built graph, cyclic ones included, each of the four closure
\* accessors returns a set for every node (it terminates), and on a two-node
\* parent cycle ancestor_nodes returns both nodes of the cycle.
C3_ClosuresTerminate ==
    (Built /\ ret # NoCall /\ ret.op \in Accessors) =>
        /\ ret.val.tag = "set"
        /\ (ret.op = "ancestor_nodes" /\ OnCycle("parent_nodes", ret.arg))
                => ret.val.elems = Reach("parent_nodes", ret.arg)

\* C4: for every node N of a built graph, N.ancestor_nodes is the set of nodes
\* reached from N by one or more parent_nodes steps and N.descendant_nodes the
\* set reached by one or more child_nodes steps.
C4_TransitiveClosure ==
    (Built /\ ret # NoCall) =>
        /\ ret.op = "ancestor_nodes" => ret.val = SetRef(Reach("parent_nodes", ret.arg))
        /\ ret.op = "descendant_nodes" => ret.val = SetRef(Reach("child_nodes", ret.arg))

\* C5: in every built graph no node is in any of its own five link sets.
C5_NoSelfLoops ==
    Built =>
        \A N \in Ids :
            /\ ~In(nodes[N].parent_nodes, N)
            /\ ~In(nodes[N].child_nodes, N)
            /\ ~In(nodes[N].group_nodes, N)
            /\ ~In(nodes[N].group_member_nodes, N)
            /\ ~In(nodes[N].similar_nodes, N)

Stripped(S) == {strip(l) : l \in S}

Range(q) == {q[k] : k \in DOMAIN q}

\* C6: a node constructed with its own stripped label in parents or groups loses
\* exactly that label from the raw set (every other declared label stays, the
\* constructor returns a node), and after resolution the node is neither in its
\* own parent_nodes nor in its own group_nodes.
C6_SelfReferenceRemoved ==
    /\ [][pc = "args" /\ pc' # pc =>
            /\ pc' = "nodes"
            /\ DOMAIN nodes' = DOMAIN args
            /\ \A i \in DOMAIN args :
                    LET own == strip(args[i].label) IN
                    /\ nodes'[i].label = own
                    /\ nodes'[i].parents = Stripped(args[i].parents) \ {own}
                    /\ nodes'[i].groups = Stripped(args[i].groups) \ {own}]_vars
    /\ [](Built => \A N \in Ids :
                    /\ ~In(nodes[N].parent_nodes, N)
                    /\ ~In(nodes[N].group_nodes, N))

\* A built graph with a node, the only one of its label, that declared itself
\* and another label as parents: the warning was printed, the other label is
\* kept and resolved.
C6_Witness ==
    /\ Built
    /\ \E N \in Ids :
        /\ \A M \in Ids : nodes[M].label = nodes[N].label => M = N
        /\ [warning |-> "parent", label |-> nodes[N].label] \in Range(stdout)
        /\ nodes[N].parents # {}
        /\ nodes[N].parent_nodes # {}

\* C7: construction never fails on dangling labels, and in a built graph every
\* node's parent_nodes is exactly the set of nodes the label index gives for
\* those of its parents labels that are in the index, likewise group_nodes for
\* groups; a child or member link exists only towards a node whose label was
\* declared.
C7_DanglingTolerated ==
    /\ pc # "AssertionError"
    /\ Built =>
        \A N \in Ids :
            /\ nodes[N].parent_nodes =
                    {label_to_node[l] : l \in nodes[N].parents \cap DOMAIN label_to_node}
            /\ nodes[N].group_nodes =
                    {label_to_node[l] : l \in nodes[N].groups \cap DOMAIN label_to_node}
            /\ \A P \in Ids :
                    /\ N \in nodes[P].child_nodes => nodes[P].label \in nodes[N].parents
                    /\ N \in nodes[P].group_member_nodes => nodes[P].label \in nodes[N].groups

\* A built graph with a node that declares a known and an unknown parent label
\* and a node all of whose parent labels are unknown.
C7_Witness ==
    /\ Built
    /\ \E N \in Ids :
        /\ nodes[N].parents \ DOMAIN label_to_node # {}
        /\ nodes[N].parent_nodes # {}
    /\ \E N \in Ids :
        /\ nodes[N].parents # {}
        /\ nodes[N].parents \cap DOMAIN label_to_node = {}
        /\ nodes[N].parent_nodes = {}

Unknown(label) == label \notin DOMAIN label_to_node

Childless(label) == ~Unknown(label) /\ nodes[label_to_node[label]].child_nodes = {}

\* C8: get_counter_args(label) returns exactly the child_nodes of the node the
\* label resolves to when that set is not empty, and None when the label
\* resolves to no node and when the node has no children.
C8_CounterArgs ==
    (Built /\ ret # NoCall /\ ret.op = "get_counter_args") =>
        IF Unknown(ret.arg) \/ Childless(ret.arg)
        THEN ret.val = None
        ELSE ret.val = SetRef(nodes[label_to_node[ret.arg]].child_nodes)

\* get_counter_args has returned the children of a node that has some, in a
\* graph that also has a node without children.
C8_Witness ==
    /\ Built /\ ret # NoCall /\ ret.op = "get_counter_args"
    /\ ret.val # None
    /\ ret.val.elems # {}
    /\ \E l \in RawLabels : Childless(l)

\* C9 as stated: the value get_counter_args returns for a label that does not
\* resolve differs from the value it returns for a label that resolves to a
\* node without children.
C9_UnknownIsDistinguished ==
    Built =>
        \A l1 \in RawLabels, l2 \in RawLabels :
            (Unknown(l1) /\ Childless(l2)) => get_counter_args(l1) # get_counter_args(l2)

\* C9, amended: get_counter_args returns one and the same value, None, for a
\* label that does not resolve and for a label that resolves to a node without
\* children; what it returns otherwise is a non-empty set, the only result a
\* caller can tell from not-found.
C9_NotFoundIsShared ==
    Built =>
        /\ \A l1 \in RawLabels, l2 \in RawLabels :
            (Unknown(l1) /\ Childless(l2)) =>
                /\ get_counter_args(l1) = None
                /\ get_counter_args(l2) = None
        /\ (ret # NoCall /\ ret.op = "get_counter_args" /\ ret.val # None) =>
                ret.val.tag = "set" /\ ret.val.elems # {}

\* get_counter_args has returned None for a label that resolves, in a graph
\* where some other label does not resolve.
C9_Witness ==
    /\ Built /\ ret # NoCall /\ ret.op = "get_counter_args"
    /\ Childless(ret.arg)
    /\ ret.val = None
    /\ \E l \in RawLabels : Unknown(l)

\* C10: the label index covers the six partitions: for every node n of any
\* partition get_node_for_label(n.label) returns a node with that label, for a
\* label no node carries it returns None, and a call repeated on the built
\* graph returns the instance the earlier call returned.
C10_LabelIndex ==
    Built =>
        /\ \A n \in Range(all_nodes) :
            /\ get_node_for_label(nodes[n].label) # None
            /\ nodes[get_node_for_label(nodes[n].label).id].label = nodes[n].label
        /\ \A l \in RawLabels :
            (\A n \in Ids : nodes[n].label # l) => get_node_for_label(l) = None
        /\ (ret # NoCall /\ ret.op = "get_node_for_label") =>
            ret.val = get_node_for_label(ret.arg)

\* get_node_for_label has returned a node of the FAQ partition, in a graph with
\* nodes in three partitions and a label that no node carries.
C10_Witness ==
    /\ Built /\ ret # NoCall /\ ret.op = "get_node_for_label"
    /\ ret.val # None
    /\ ret.val.id \in Range(faq_nodes)
    /\ introduction_nodes # <<>>
    /\ group_nodes # <<>>
    /\ \E l \in RawLabels : Unknown(l)

\* C11: faq_node_pairs returns exactly one pair (question, answer) for each node
\* of the FAQ partition that declares a parent label and has a resolved parent,
\* the question a member of the answer's parent_nodes, and no other pair: none
\* for a FAQ node without declared parents or with unresolved parents only, and
\* none whose answer is outside the FAQ partition.
C11_FaqNodePairs ==
    (Built /\ ret # NoCall /\ ret.op = "faq_node_pairs") =>
        LET pairs == ret.val.elems
            answering == {a \in Range(faq_nodes) :
                            nodes[a].parents # {} /\ nodes[a].parent_nodes # {}}
        IN  /\ ret.val.tag = "list"
            /\ \A a \in answering : Cardinality({k \in DOMAIN pairs : pairs[k][2] = a}) = 1
            /\ \A k \in DOMAIN pairs :
                    /\ pairs[k][2] \in answering
                    /\ pairs[k][1] \in nodes[pairs[k][2]].parent_nodes

\* faq_node_pairs has returned a pair, in a graph with a FAQ node that declares
\* no parents and a node outside the FAQ partition that has a resolved parent.
C11_Witness ==
    /\ Built /\ ret # NoCall /\ ret.op = "faq_node_pairs"
    /\ ret.val.elems # <<>>
    /\ \E q \in Range(faq_nodes) : nodes[q].parents = {}
    /\ \E z \in Ids \ Range(faq_nodes) : nodes[z].parent_nodes # {}

\* The nodes of category Z, in any partition, that declare no parent label and
\* have the given stance.
FirstLevelZ(stance) ==
    {N \in Ids : /\ nodes[N].category = "Z"
                 /\ nodes[N].parents = {}
                 /\ nodes[N].stance = stance}

\* C12: get_num_arguments_pro() is the number of nodes of category Z, in any
\* partition, that declare no parent label and have stance PRO, and
\* get_num_arguments_con() the same for stance CON; nodes of stance OTHER, nodes
\* with a declared parent and nodes of another category are counted by neither.
C12_StanceCounts ==
    (Built /\ ret # NoCall) =>
        /\ ret.op = "get_num_arguments_pro" => ret.val = IntRef(Cardinality(FirstLevelZ("PRO")))
        /\ ret.op = "get_num_arguments_con" => ret.val = IntRef(Cardinality(FirstLevelZ("CON")))

\* C13: the constraint check that follows resolution never fails: whatever the
\* raw nodes (dangling labels, self-references in parents, groups or similars,
\* cyclic declarations, labels shared by several nodes), none of the five
\* assertions of _check_constraints is violated and construction reaches the
\* built state.
C13_ConstraintsNeverFail ==
    /\ [][pc = "nodes" /\ pc' # pc =>
            /\ pc' = "built"
            /\ check_constraints(nodes', all_nodes')]_vars
    /\ [](pc # "AssertionError")

\* A built graph with two nodes of one label that both declared a parent found
\* in the index, the parent holding only one of them as child, and with a node
\* that is in its own similar_nodes.
C13_Witness ==
    /\ Built
    /\ ~LabelsUnique
    /\ \E N \in Ids, P \in Ids :
            P \in nodes[N].parent_nodes /\ N \notin nodes[P].child_nodes
    /\ \E N \in Ids : N \in nodes[N].similar_nodes

\* The nodes with their five link sets empty, as the constructor leaves them.
Unlinked(ns) ==
    [i \in DOMAIN ns |->
        [ns[i] EXCEPT !.child_nodes = {}, !.parent_nodes = {}, !.similar_nodes = {},
                      !.group_nodes = {}, !.group_member_nodes = {}]]

LinkSets == {"child_nodes", "parent_nodes", "similar_nodes", "group_nodes", "group_member_nodes"}

\* The link sets that belong to the pass over the raw field raw.
OwnLinkSets(raw) ==
    CASE raw = "parents" -> {"parent_nodes", "child_nodes"}
      [] raw = "groups" -> {"group_nodes", "group_member_nodes"}
      [] raw = "similars" -> {"similar_nodes"}

\* The pass over the raw field raw, run from its first to its last statement.
RunPass(raw, ns) ==
    CASE raw = "parents" -> init_node_child_and_parent_references(ns, label_to_node, all_nodes)
      [] raw = "groups" -> init_node_group_references(ns, label_to_node, all_nodes)
      [] raw = "similars" -> init_node_similars_references(ns, label_to_node, all_nodes)

\* The six orders of the three passes.
PassOrders ==
    {order \in [1..3 -> {"parents", "groups", "similars"}] :
        \A i, j \in 1..3 : order[i] = order[j] => i = j}

RunPasses(order, ns) == RunPass(order[3], RunPass(order[2], RunPass(order[1], ns)))

\* C14: the three resolution passes are independent: every link insertion of a
\* pass changes link sets of that pass only, and however the insertions of the
\* three passes are interleaved, the link sets of every node end as each of the
\* six orders of the passes, the order of the code among them, leaves them.
C14_PassesIndependent ==
    /\ [][(pc = "passes" /\ pc' = "passes") =>
            \A raw \in DOMAIN passes :
                passes'[raw] # passes[raw] =>
                    \A N \in DOMAIN nodes : \A field \in LinkSets \ OwnLinkSets(raw) :
                        nodes'[N][field] = nodes[N][field]]_vars
    /\ [](pc = "built" =>
            /\ nodes = init_node_references(Unlinked(nodes), label_to_node, all_nodes)
            /\ \A order \in PassOrders : nodes = RunPasses(order, Unlinked(nodes)))

\* The similar pass has returned and has linked nodes, while the parent pass and
\* the group pass are both between the update of a node's set and the
\* insertion of the back links.
C14_Witness ==
    /\ pc = "passes"
    /\ PassReturned("similars")
    /\ \E N \in DOMAIN nodes : nodes[N].similar_nodes # {}
    /\ passes["parents"].pending # {}
    /\ passes["groups"].pending # {}

FaqWarnings ==
    SelectSeq(stdout, LAMBDA line :
        line.warning \in {"FAQ answer node without question",
                          "FAQ answer node for multiple questions"})

\* C15: once construction has completed, no query of the collection and no
\* accessor of a node changes a node's five link sets or raw reference sets,
\* the partitions or the label index: whatever sequence of get_node_for_label,
\* get_counter_args, faq_node_pairs, the filters, the stance counts and the
\* closure accessors runs, they keep the values construction gave them.
C15_QueriesReadOnly ==
    [][pc = "built" =>
            /\ pc' = "built"
            /\ nodes' = nodes
            /\ partitions' = partitions
            /\ label_to_node' = label_to_node]_vars

\* A closure accessor has returned a non-empty set after faq_node_pairs has run
\* twice on a graph for which it returns a pair and prints a warning.
C15_Witness ==
    /\ Built /\ ret # NoCall /\ ret.op = "ancestor_nodes"
    /\ ret.val.tag = "set" /\ ret.val.elems # {}
    /\ faq_node_pairs_prints(faq_answer_nodes) # <<>>
    /\ Len(FaqWarnings) >= 2 * Len(faq_node_pairs_prints(faq_answer_nodes))
    /\ \E val \in faq_node_pairs : val.elems # <<>>

\* C16: for a FAQ answer with more than one resolved parent faq_node_pairs picks
\* the question deterministically: the graph built from given raw records
\* admits one result only, every run returning the same question for the answer.
C16_FaqQuestionDeterministic ==
    Built => \A v1 \in faq_node_pairs, v2 \in faq_node_pairs : v1 = v2

\* No instance reaches itself along the link set field.
Acyclic(field) == \A N \in Ids : ~OnCycle(field, N)

\* x is in the set the accessor returned, as Python evaluates it.
InResult(val, x) == val.tag = "set" /\ In(val.elems, x)

\* C17: on every built graph whose parent and child links are acyclic, A is in
\* B.ancestor_nodes iff B is in A.descendant_nodes, for all nodes A and B; and
\* G is in N.super_group_nodes iff N is in G.sub_group_member_nodes when the
\* group links are acyclic.
C17_AncestorDescendantDuality ==
    (Built /\ ret = NoCall) =>
        /\ (Acyclic("parent_nodes") /\ Acyclic("child_nodes")) =>
                \A A \in Ids, B \in Ids :
                    \A up \in ancestor_nodes(nodes, B), down \in descendant_nodes(nodes, A) :
                        InResult(up, A) <=> InResult(down, B)
        /\ (Acyclic("group_nodes") /\ Acyclic("group_member_nodes")) =>
                \A G \in Ids, N \in Ids :
                    \A up \in super_group_nodes(nodes, N),
                       down \in sub_group_member_nodes(nodes, G) :
                        InResult(up, G) <=> InResult(down, N)

====
